---- MODULE Spec2Model ----
(***************************************************************************)
(* A model of the feather_m0 "adalogger" example (main flow, the           *)
(* usbserial_write macro and the USB interrupt handler) and of the         *)
(* TBFR127 register reader of the atsame54n peripheral access crate.       *)
(*                                                                         *)
(* The processor is a single hardware thread: while the USB handler is     *)
(* Servicing, the main flow is suspended.  The handler can be entered only *)
(* when the USB line is unmasked in the NVIC and PRIMASK allows            *)
(* interrupts.                                                             *)
(***************************************************************************)
EXTENDS Integers, Sequences, FiniteSets, TLC

(* ---------------- bounds ---------------- *)
\* longest message (in bytes) the model lets usbserial_write format
MaxMsgLen == 2
\* most directory entries iterate_dir reports for one volume
MaxDirEntries == 1
\* deepest nesting of critical sections exercised by CsSpec
MaxNest == 3

(* ---------------- program constants ---------------- *)
\* let mut buf = [0u8; 16]
BufSize == 16
\* let size = 10240; // in bytes
HeapSize == 10240
\* for i in 0..=3
LastVolumeIdx == 3
\* a register word is a u32
WordBits == 32

VARIABLES
    pc,                 \* position of the main flow
    USB_ALLOCATOR,      \* TRUE when the slot holds Some(..)
    USB_BUS,            \* TRUE when the slot holds Some(..)
    USB_SERIAL,         \* TRUE when the slot holds Some(..)
    USB_DATA_RECEIVED,  \* the AtomicBool
    nvicUnmasked,       \* NVIC enable bit of the USB interrupt line
    primask,            \* TRUE when interrupts are globally enabled
    csStack,            \* interrupt-enable states captured by active critical sections
    hstate,             \* "Idle" or "Servicing"
    hRead,              \* result of serial.read in the latest handler invocation
    rxSeen,             \* some handler invocation has read at least one byte
    red_led,            \* level of the d13 pin
    msg,                \* message usbserial_write is sending ("none" outside the macro)
    msgLen,             \* message_bytes.len()
    total_written,      \* total_written of the macro
    bytes_written,      \* value produced by the closure of the current attempt
    retpc,              \* where the main flow continues after the macro
    wire,               \* indices of the message bytes the serial port has accepted
    out,                \* messages completely written so far
    ops,                \* storage-driver calls made so far
    failed,             \* storage-driver calls that returned Err
    cdLowFirst,         \* result of the first card-detect read ("unread" before it)
    cdLast,             \* result of the latest card-detect read ("unread" before it)
    volIdx,             \* loop variable i of the volume loop
    volOk,              \* get_volume(i) returned Ok
    dirSeen,            \* entries reported so far by the running iterate_dir
    regBits,            \* current content of the TBFR127 register
    rBits,              \* word captured in the reader R (NoWord before a read)
    nfrxVal,            \* value returned by R::nfrx (NoWord before a call)
    fieldOp             \* latest field insertion and read-back (NoFieldOp before one)

slotVars == <<USB_ALLOCATOR, USB_BUS, USB_SERIAL>>
handlerVars == <<hstate, hRead>>
macroVars == <<msg, msgLen, total_written, bytes_written, retpc, wire>>
storVars == <<ops, failed, cdLowFirst, cdLast, volIdx, volOk, dirSeen>>
csVars == <<primask, csStack>>
regVars == <<regBits, rBits, nfrxVal, fieldOp>>
vars == <<pc, slotVars, USB_DATA_RECEIVED, nvicUnmasked, handlerVars, rxSeen,
          red_led, macroVars, out, storVars, csVars, regVars>>

(* ---------------- critical section (cortex_m::interrupt::free) -------- *)
\* enter: capture the current interrupt-enable state and mask interrupts
CsEnterStack(stack, pm) == Append(stack, pm)
CsEnterMask(pm) == FALSE
\* exit: restore the state captured by the matching enter
CsExitMask(stack) == stack[Len(stack)]
CsExitStack(stack) == SubSeq(stack, 1, Len(stack) - 1)

InCriticalSection == Len(csStack) > 0

(* ---------------- the USB interrupt handler ---------------- *)
ReadCounts == {0, 1, BufSize}
ReadResults == [ok : {TRUE}, count : ReadCounts] \cup [ok : {FALSE}, count : {0}]
NoRead == [ok |-> FALSE, count |-> -1]
Skipped == [ok |-> FALSE, count |-> -2]

\* the hardware vectors to USB(): the main flow is preempted
USB_Fire ==
    /\ hstate = "Idle"
    /\ nvicUnmasked
    /\ primask
    /\ hstate' = "Servicing"
    /\ hRead' = NoRead
    /\ UNCHANGED <<pc, slotVars, USB_DATA_RECEIVED, nvicUnmasked, rxSeen,
                   red_led, macroVars, out, storVars, csVars, regVars>>

\* the poll and the read made whatever the slots hold
USB_PollRead_noGuard ==
    /\ hstate = "Servicing"
    /\ hRead = NoRead
    /\ \E r \in ReadResults : hRead' = r
    /\ UNCHANGED <<pc, slotVars, USB_DATA_RECEIVED, nvicUnmasked, hstate,
                   rxSeen, red_led, macroVars, out, storVars, csVars, regVars>>

\* USB_BUS.as_mut().map(.. USB_SERIAL.as_mut().map(.. poll; read ..))
USB_PollRead ==
    /\ hstate = "Servicing"
    /\ hRead = NoRead
    /\ IF USB_BUS /\ USB_SERIAL
          THEN \E r \in ReadResults : hRead' = r
          ELSE hRead' = Skipped
    /\ UNCHANGED <<pc, slotVars, USB_DATA_RECEIVED, nvicUnmasked, hstate,
                   rxSeen, red_led, macroVars, out, storVars, csVars, regVars>>

\* if let Ok(count) = .. { if count > 0 { .. } }
HandlerStores_noCount(r) == r.ok
HandlerStores(r) == r.ok /\ r.count > 0

\* USB_DATA_RECEIVED.store(true, Relaxed) under that test; no other store
FlagAfterRead_assign(flag, r) == HandlerStores(r)
FlagAfterRead(flag, r) == IF HandlerStores(r) THEN TRUE ELSE flag

\* the conditional store, then the return from the handler
USB_Finish ==
    /\ hstate = "Servicing"
    /\ hRead # NoRead
    /\ USB_DATA_RECEIVED' = FlagAfterRead(USB_DATA_RECEIVED, hRead)
    /\ rxSeen' = (rxSeen \/ HandlerStores(hRead))
    /\ hstate' = "Idle"
    /\ UNCHANGED <<pc, slotVars, nvicUnmasked, hRead, red_led, macroVars, out,
                   storVars, csVars, regVars>>

(* ---------------- the usbserial_write macro ---------------- *)
\* the String the macro formats is allocated from the 10240-byte heap
AllocOk(len) == len <= HeapSize

\* let mut s = String::new(); write!(s, ..).unwrap(); total_written = 0
\* for a message whose formatted length is one of lens; a failed allocation
\* enters the alloc_error_handler
BeginWriteOf(m, ret, lens) ==
    \E len \in lens :
        IF AllocOk(len)
           THEN /\ msg' = m
                /\ msgLen' = len
                /\ total_written' = 0
                /\ bytes_written' = 0
                /\ retpc' = ret
                /\ wire' = <<>>
                /\ pc' = "w_test"
           ELSE /\ pc' = "oom"
                /\ UNCHANGED macroVars

\* the messages of the program, scaled to at most MaxMsgLen bytes
BeginWrite(m, ret) == BeginWriteOf(m, ret, 1..MaxMsgLen)

\* the loop body entered with the write left unguarded
W_Enter_noMask ==
    /\ hstate = "Idle"
    /\ pc = "w_test"
    /\ total_written < msgLen
    /\ csStack' = CsEnterStack(csStack, primask)
    /\ primask' = primask
    /\ pc' = "w_write"
    /\ UNCHANGED <<slotVars, USB_DATA_RECEIVED, nvicUnmasked, handlerVars,
                   rxSeen, red_led, macroVars, out, storVars, regVars>>

\* while total_written < len { disable_interrupts(|_| ..  -- entry of the section
W_Enter ==
    /\ hstate = "Idle"
    /\ pc = "w_test"
    /\ total_written < msgLen
    /\ csStack' = CsEnterStack(csStack, primask)
    /\ primask' = CsEnterMask(primask)
    /\ pc' = "w_write"
    /\ UNCHANGED <<slotVars, USB_DATA_RECEIVED, nvicUnmasked, handlerVars,
                   rxSeen, red_led, macroVars, out, storVars, regVars>>

\* what SerialPort::write may answer when offered n bytes
WriteResults(n) == [ok : {TRUE}, count : 0..n] \cup [ok : {FALSE}, count : {0}]

\* match .. { Ok(count) => count, Err(_) => 0 }
ClosureValue(r) == IF r.ok THEN r.count ELSE 0

\* the slice offered every time from the start of the message
OfferedFrom_start(total) == 0
\* &message_bytes[total_written..]: the index the offered slice starts at
OfferedFrom(total) == total

\* the bytes of the message with indices from + 1 .. from + n, in order
Accepted(from, n) == [i \in 1..n |-> from + i]

\* USB_SERIAL.as_mut().unwrap().write(&message_bytes[total_written..])
W_Write ==
    /\ hstate = "Idle"
    /\ pc = "w_write"
    /\ IF USB_SERIAL
          THEN \E r \in WriteResults(msgLen - OfferedFrom(total_written)) :
                   /\ bytes_written' = ClosureValue(r)
                   /\ wire' = wire \o Accepted(OfferedFrom(total_written),
                                                IF r.ok THEN r.count ELSE 0)
                   /\ pc' = "w_exit"
          ELSE /\ pc' = "panic"
               /\ UNCHANGED <<bytes_written, wire>>
    /\ UNCHANGED <<slotVars, USB_DATA_RECEIVED, nvicUnmasked, handlerVars,
                   rxSeen, red_led, msg, msgLen, total_written, retpc, out,
                   storVars, csVars, regVars>>

\* the section left by enabling interrupts whatever was captured
W_Exit_enable ==
    /\ hstate = "Idle"
    /\ pc = "w_exit"
    /\ primask' = TRUE
    /\ csStack' = CsExitStack(csStack)
    /\ total_written' = total_written + bytes_written
    /\ pc' = "w_test"
    /\ UNCHANGED <<slotVars, USB_DATA_RECEIVED, nvicUnmasked, handlerVars,
                   rxSeen, red_led, msg, msgLen, bytes_written, retpc, wire,
                   out, storVars, regVars>>

\* the section left with interrupts still masked
W_Exit_keepMasked ==
    /\ hstate = "Idle"
    /\ pc = "w_exit"
    /\ primask' = FALSE
    /\ csStack' = CsExitStack(csStack)
    /\ total_written' = total_written + bytes_written
    /\ pc' = "w_test"
    /\ UNCHANGED <<slotVars, USB_DATA_RECEIVED, nvicUnmasked, handlerVars,
                   rxSeen, red_led, msg, msgLen, bytes_written, retpc, wire,
                   out, storVars, regVars>>

\* end of the closure: leave the section; total_written += bytes_written
W_Exit ==
    /\ hstate = "Idle"
    /\ pc = "w_exit"
    /\ primask' = CsExitMask(csStack)
    /\ csStack' = CsExitStack(csStack)
    /\ total_written' = total_written + bytes_written
    /\ pc' = "w_test"
    /\ UNCHANGED <<slotVars, USB_DATA_RECEIVED, nvicUnmasked, handlerVars,
                   rxSeen, red_led, msg, msgLen, bytes_written, retpc, wire,
                   out, storVars, regVars>>

\* the loop condition fails: the macro is over
W_Done ==
    /\ hstate = "Idle"
    /\ pc = "w_test"
    /\ ~(total_written < msgLen)
    /\ out' = out \cup {msg}
    /\ pc' = retpc
    /\ msg' = "none"
    /\ msgLen' = 0
    /\ total_written' = 0
    /\ bytes_written' = 0
    /\ retpc' = "none"
    /\ wire' = <<>>
    /\ UNCHANGED <<slotVars, USB_DATA_RECEIVED, nvicUnmasked, handlerVars,
                   rxSeen, red_led, storVars, csVars, regVars>>

(* ---------------- the main flow ---------------- *)
\* lines 38-61: peripherals, clocks, delay, heap, RTC, pins, LED
M_Start ==
    /\ hstate = "Idle"
    /\ pc = "start"
    /\ pc' = "set_alloc"
    /\ UNCHANGED <<slotVars, USB_DATA_RECEIVED, nvicUnmasked, handlerVars,
                   rxSeen, red_led, macroVars, out, storVars, csVars, regVars>>

\* the NVIC unmask moved ahead of the slot writes
M_SetAllocator_unmaskFirst ==
    /\ hstate = "Idle"
    /\ pc = "set_alloc"
    /\ USB_ALLOCATOR' = TRUE
    /\ nvicUnmasked' = TRUE
    /\ pc' = "set_serial"
    /\ UNCHANGED <<USB_BUS, USB_SERIAL, USB_DATA_RECEIVED, handlerVars, rxSeen,
                   red_led, macroVars, out, storVars, csVars, regVars>>

\* USB_ALLOCATOR = Some(hal::usb_allocator(..)), written with no critical section
M_SetAllocator ==
    /\ hstate = "Idle"
    /\ pc = "set_alloc"
    /\ USB_ALLOCATOR' = TRUE
    /\ pc' = "set_serial"
    /\ UNCHANGED <<USB_BUS, USB_SERIAL, USB_DATA_RECEIVED, nvicUnmasked,
                   handlerVars, rxSeen, red_led, macroVars, out, storVars,
                   csVars, regVars>>

\* the NVIC unmask placed between the two remaining slot writes
M_SetSerial_unmasks ==
    /\ hstate = "Idle"
    /\ pc = "set_serial"
    /\ USB_ALLOCATOR
    /\ USB_SERIAL' = TRUE
    /\ nvicUnmasked' = TRUE
    /\ pc' = "set_bus"
    /\ UNCHANGED <<USB_ALLOCATOR, USB_BUS, USB_DATA_RECEIVED, handlerVars,
                   rxSeen, red_led, macroVars, out, storVars, csVars, regVars>>

\* USB_SERIAL = Some(SerialPort::new(&bus_allocator))
M_SetSerial ==
    /\ hstate = "Idle"
    /\ pc = "set_serial"
    /\ USB_ALLOCATOR
    /\ USB_SERIAL' = TRUE
    /\ pc' = "set_bus"
    /\ UNCHANGED <<USB_ALLOCATOR, USB_BUS, USB_DATA_RECEIVED, nvicUnmasked,
                   handlerVars, rxSeen, red_led, macroVars, out, storVars,
                   csVars, regVars>>

\* USB_BUS = Some(UsbDeviceBuilder::new(&bus_allocator, ..).build())
M_SetBus ==
    /\ hstate = "Idle"
    /\ pc = "set_bus"
    /\ USB_ALLOCATOR
    /\ USB_BUS' = TRUE
    /\ pc' = "unmask"
    /\ UNCHANGED <<USB_ALLOCATOR, USB_SERIAL, USB_DATA_RECEIVED, nvicUnmasked,
                   handlerVars, rxSeen, red_led, macroVars, out, storVars,
                   csVars, regVars>>

\* core.NVIC.set_priority(interrupt::USB, 1); NVIC::unmask(interrupt::USB)
M_Unmask ==
    /\ hstate = "Idle"
    /\ pc = "unmask"
    /\ nvicUnmasked' = TRUE
    /\ pc' = "sd_setup"
    /\ UNCHANGED <<slotVars, USB_DATA_RECEIVED, handlerVars, rxSeen, red_led,
                   macroVars, out, storVars, csVars, regVars>>

\* lines 93-105: spi_master, sd_cd, sd_cs
M_SdSetup ==
    /\ hstate = "Idle"
    /\ pc = "sd_setup"
    /\ pc' = "poll_check"
    /\ UNCHANGED <<slotVars, USB_DATA_RECEIVED, nvicUnmasked, handlerVars,
                   rxSeen, red_led, macroVars, out, storVars, csVars, regVars>>

\* where the flag-polling loop goes on a load that returned v
AfterPoll_hoisted(v) == "poll_delay"
AfterPoll_inverted(v) == IF v = TRUE THEN "poll_delay" ELSE "cd_check"
AfterPoll(v) == IF v = FALSE THEN "poll_delay" ELSE "cd_check"

\* while USB_DATA_RECEIVED.load(Relaxed) == false
M_PollCheck ==
    /\ hstate = "Idle"
    /\ pc = "poll_check"
    /\ pc' = AfterPoll(USB_DATA_RECEIVED)
    /\ UNCHANGED <<slotVars, USB_DATA_RECEIVED, nvicUnmasked, handlerVars,
                   rxSeen, red_led, macroVars, out, storVars, csVars, regVars>>

\* delay.delay_ms(250); red_led.toggle()
M_PollDelay ==
    /\ hstate = "Idle"
    /\ pc = "poll_delay"
    /\ red_led' = ~red_led
    /\ pc' = "poll_check"
    /\ UNCHANGED <<slotVars, USB_DATA_RECEIVED, nvicUnmasked, handlerVars,
                   rxSeen, macroVars, out, storVars, csVars, regVars>>

\* if sd_cd.is_low() { usbserial_write!("No card detected..") .. }
M_CardDetect ==
    /\ hstate = "Idle"
    /\ pc = "cd_check"
    /\ \E low \in BOOLEAN :
          /\ cdLowFirst' = (IF low THEN "low" ELSE "high")
          /\ cdLast' = (IF low THEN "low" ELSE "high")
          /\ IF low THEN BeginWrite("NoCard", "cd_wait")
                    ELSE BeginWrite("CardInserted", "post_delay")
    /\ UNCHANGED <<slotVars, USB_DATA_RECEIVED, nvicUnmasked, handlerVars,
                   rxSeen, red_led, out, ops, failed, volIdx, volOk, dirSeen,
                   csVars, regVars>>

\* the wait loop left without looking at what is_low() returned
M_CardWait_noWait ==
    /\ hstate = "Idle"
    /\ pc = "cd_wait"
    /\ \E low \in BOOLEAN :
          /\ cdLast' = (IF low THEN "low" ELSE "high")
          /\ BeginWrite("CardInserted", "post_delay")
    /\ UNCHANGED <<slotVars, USB_DATA_RECEIVED, nvicUnmasked, handlerVars,
                   rxSeen, red_led, out, ops, failed, cdLowFirst, volIdx,
                   volOk, dirSeen, csVars, regVars>>

\* while sd_cd.is_low() { .. }  then usbserial_write!("Card inserted!")
M_CardWait ==
    /\ hstate = "Idle"
    /\ pc = "cd_wait"
    /\ \E low \in BOOLEAN :
          /\ cdLast' = (IF low THEN "low" ELSE "high")
          /\ IF low THEN /\ pc' = "cd_delay"
                         /\ UNCHANGED macroVars
                    ELSE BeginWrite("CardInserted", "post_delay")
    /\ UNCHANGED <<slotVars, USB_DATA_RECEIVED, nvicUnmasked, handlerVars,
                   rxSeen, red_led, out, ops, failed, cdLowFirst, volIdx,
                   volOk, dirSeen, csVars, regVars>>

\* delay.delay_ms(250) inside the card-wait loop
M_CardWaitDelay ==
    /\ hstate = "Idle"
    /\ pc = "cd_delay"
    /\ pc' = "cd_wait"
    /\ UNCHANGED <<slotVars, USB_DATA_RECEIVED, nvicUnmasked, handlerVars,
                   rxSeen, red_led, macroVars, out, storVars, csVars, regVars>>

\* delay.delay_ms(250); Controller::new(SdMmcSpi::new(spi, sd_cs), timer)
M_PostDelay ==
    /\ hstate = "Idle"
    /\ pc = "post_delay"
    /\ pc' = "init"
    /\ UNCHANGED <<slotVars, USB_DATA_RECEIVED, nvicUnmasked, handlerVars,
                   rxSeen, red_led, macroVars, out, storVars, csVars, regVars>>

\* the Err arm falling through to the card-size query
M_Init_errFallsThrough ==
    /\ hstate = "Idle"
    /\ pc = "init"
    /\ ops' = ops \cup {"init"}
    /\ \E ok \in BOOLEAN :
          IF ok THEN /\ BeginWrite("InitOk", "card_size")
                     /\ UNCHANGED failed
                ELSE /\ BeginWrite("InitErr", "card_size")
                     /\ failed' = failed \cup {"init"}
    /\ UNCHANGED <<slotVars, USB_DATA_RECEIVED, nvicUnmasked, handlerVars,
                   rxSeen, red_led, out, cdLowFirst, cdLast, volIdx, volOk, dirSeen,
                   csVars, regVars>>

\* match controller.device().init() { Ok => "OK!..", Err(e) => "Init err: .." }
M_Init ==
    /\ hstate = "Idle"
    /\ pc = "init"
    /\ ops' = ops \cup {"init"}
    /\ \E ok \in BOOLEAN :
          IF ok THEN /\ BeginWrite("InitOk", "card_size")
                     /\ UNCHANGED failed
                ELSE /\ BeginWrite("InitErr", "done")
                     /\ failed' = failed \cup {"init"}
    /\ UNCHANGED <<slotVars, USB_DATA_RECEIVED, nvicUnmasked, handlerVars,
                   rxSeen, red_led, out, cdLowFirst, cdLast, volIdx, volOk, dirSeen,
                   csVars, regVars>>

\* match controller.device().card_size_bytes() { Ok(size) => .., Err(e) => .. }
M_CardSize ==
    /\ hstate = "Idle"
    /\ pc = "card_size"
    /\ ops' = ops \cup {"card_size"}
    /\ \E ok \in BOOLEAN :
          IF ok THEN /\ BeginWrite("Size", "vol_loop")
                     /\ UNCHANGED failed
                ELSE /\ BeginWrite("SizeErr", "vol_loop")
                     /\ failed' = failed \cup {"card_size"}
    /\ UNCHANGED <<slotVars, USB_DATA_RECEIVED, nvicUnmasked, handlerVars,
                   rxSeen, red_led, out, cdLowFirst, cdLast, volIdx, volOk, dirSeen,
                   csVars, regVars>>

\* for i in 0..=3 { let volume = get_volume(VolumeIdx(i)); "volume {:?}" .. }
M_VolLoop ==
    /\ hstate = "Idle"
    /\ pc = "vol_loop"
    /\ IF volIdx <= LastVolumeIdx
          THEN /\ ops' = ops \cup {"get_volume"}
               /\ \E ok \in BOOLEAN :
                     /\ volOk' = ok
                     /\ IF ok THEN /\ BeginWrite("VolumeOk", "open_root")
                                   /\ UNCHANGED failed
                              ELSE /\ BeginWrite("VolumeErr", "vol_next")
                                   /\ failed' = failed \cup {"get_volume"}
          ELSE /\ pc' = "done"
               /\ UNCHANGED <<macroVars, ops, failed, volOk>>
    /\ UNCHANGED <<slotVars, USB_DATA_RECEIVED, nvicUnmasked, handlerVars,
                   rxSeen, red_led, out, cdLowFirst, cdLast, volIdx, dirSeen, csVars,
                   regVars>>

\* end of one iteration of the volume loop
M_VolNext ==
    /\ hstate = "Idle"
    /\ pc = "vol_next"
    /\ volIdx' = volIdx + 1
    /\ dirSeen' = 0
    /\ pc' = "vol_loop"
    /\ UNCHANGED <<slotVars, USB_DATA_RECEIVED, nvicUnmasked, handlerVars,
                   rxSeen, red_led, macroVars, out, ops, failed, cdLowFirst,
                   cdLast, volOk, csVars, regVars>>

\* let root_dir = controller.open_root_dir(&volume).unwrap(); "Listing.."
M_OpenRoot ==
    /\ hstate = "Idle"
    /\ pc = "open_root"
    /\ ops' = ops \cup {"open_root_dir"}
    /\ \E ok \in BOOLEAN :
          IF ok THEN /\ BeginWrite("Listing", "iterate")
                     /\ UNCHANGED failed
                ELSE /\ pc' = "panic"
                     /\ failed' = failed \cup {"open_root_dir"}
                     /\ UNCHANGED macroVars
    /\ UNCHANGED <<slotVars, USB_DATA_RECEIVED, nvicUnmasked, handlerVars,
                   rxSeen, red_led, out, cdLowFirst, cdLast, volIdx, volOk, dirSeen,
                   csVars, regVars>>

\* controller.iterate_dir(&volume, &root_dir, |x| "Found: ..").unwrap()
M_Iterate ==
    /\ hstate = "Idle"
    /\ pc = "iterate"
    /\ ops' = ops \cup {"iterate_dir"}
    /\ \/ /\ dirSeen < MaxDirEntries
          /\ dirSeen' = dirSeen + 1
          /\ BeginWrite("Found", "iterate")
          /\ UNCHANGED failed
       \/ /\ pc' = "vol_next"
          /\ UNCHANGED <<macroVars, failed, dirSeen>>
       \/ /\ pc' = "panic"
          /\ failed' = failed \cup {"iterate_dir"}
          /\ UNCHANGED <<macroVars, dirSeen>>
    /\ UNCHANGED <<slotVars, USB_DATA_RECEIVED, nvicUnmasked, handlerVars,
                   rxSeen, red_led, out, cdLowFirst, cdLast, volIdx, volOk, csVars,
                   regVars>>

\* usbserial_write!("Done!\r\n")
M_Done ==
    /\ hstate = "Idle"
    /\ pc = "done"
    /\ BeginWrite("Done", "idle")
    /\ UNCHANGED <<slotVars, USB_DATA_RECEIVED, nvicUnmasked, handlerVars,
                   rxSeen, red_led, out, storVars, csVars, regVars>>

\* loop { delay.delay_ms(1_000); red_led.toggle(); }
M_Idle ==
    /\ hstate = "Idle"
    /\ pc = "idle"
    /\ red_led' = ~red_led
    /\ UNCHANGED <<pc, slotVars, USB_DATA_RECEIVED, nvicUnmasked, handlerVars,
                   rxSeen, macroVars, out, storVars, csVars, regVars>>

(* ---------------- the program as a whole ---------------- *)
\* a word that may not have been produced yet
NoWord == [some |-> FALSE, bits |-> {}]
SomeWord(b) == [some |-> TRUE, bits |-> b]

\* no field insertion made yet
NoFieldOp == [phase |-> "none", word |-> {}, value |-> {}, o |-> 0, w |-> 1,
              result |-> {}, readback |-> {}]

RegIdle == regBits = {} /\ rBits = NoWord /\ nfrxVal = NoWord /\ fieldOp = NoFieldOp

Init ==
    /\ pc = "start"
    /\ USB_ALLOCATOR = FALSE
    /\ USB_BUS = FALSE
    /\ USB_SERIAL = FALSE
    /\ USB_DATA_RECEIVED = FALSE
    /\ nvicUnmasked = FALSE
    /\ primask = TRUE
    /\ csStack = <<>>
    /\ hstate = "Idle"
    /\ hRead = NoRead
    /\ rxSeen = FALSE
    /\ red_led = FALSE
    /\ msg = "none"
    /\ msgLen = 0
    /\ total_written = 0
    /\ bytes_written = 0
    /\ retpc = "none"
    /\ wire = <<>>
    /\ out = {}
    /\ ops = {}
    /\ failed = {}
    /\ cdLowFirst = "unread"
    /\ cdLast = "unread"
    /\ volIdx = 0
    /\ volOk = FALSE
    /\ dirSeen = 0
    /\ RegIdle

MainStep ==
    \/ M_Start \/ M_SetAllocator \/ M_SetSerial \/ M_SetBus \/ M_Unmask
    \/ M_SdSetup \/ M_PollCheck \/ M_PollDelay \/ M_CardDetect \/ M_CardWait
    \/ M_CardWaitDelay \/ M_PostDelay \/ M_Init \/ M_CardSize \/ M_VolLoop
    \/ M_VolNext \/ M_OpenRoot \/ M_Iterate \/ M_Done \/ M_Idle
    \/ W_Enter \/ W_Write \/ W_Exit \/ W_Done

HandlerStep == USB_Fire \/ USB_PollRead \/ USB_Finish

Next == MainStep \/ HandlerStep

Spec == Init /\ [][Next]_vars

\* the processor never stops: the main flow runs whenever no handler is
\* being serviced, a handler runs to its return, and the host keeps draining
\* the serial endpoint so that some write attempt accepts a byte
FairSpec ==
    /\ Spec
    /\ SF_vars(MainStep)
    /\ WF_vars(USB_PollRead \/ USB_Finish)
    /\ SF_vars(W_Write /\ bytes_written' > 0)

(* ---------------- usbserial_write called from nested sections --------- *)
\* a caller of the exported macro that wraps code in disable_interrupts,
\* possibly nested, and writes messages from any nesting depth
Client_Enter ==
    /\ hstate = "Idle"
    /\ pc = "client"
    /\ Len(csStack) < MaxNest
    /\ csStack' = CsEnterStack(csStack, primask)
    /\ primask' = CsEnterMask(primask)
    /\ UNCHANGED <<pc, slotVars, USB_DATA_RECEIVED, nvicUnmasked, handlerVars,
                   rxSeen, red_led, macroVars, out, storVars, regVars>>

Client_Exit ==
    /\ hstate = "Idle"
    /\ pc = "client"
    /\ Len(csStack) > 0
    /\ primask' = CsExitMask(csStack)
    /\ csStack' = CsExitStack(csStack)
    /\ UNCHANGED <<pc, slotVars, USB_DATA_RECEIVED, nvicUnmasked, handlerVars,
                   rxSeen, red_led, macroVars, out, storVars, regVars>>

Client_Write ==
    /\ hstate = "Idle"
    /\ pc = "client"
    /\ BeginWrite("Client", "client")
    /\ UNCHANGED <<slotVars, USB_DATA_RECEIVED, nvicUnmasked, handlerVars,
                   rxSeen, red_led, out, storVars, csVars, regVars>>

CsInit ==
    /\ pc = "client"
    /\ USB_ALLOCATOR = TRUE
    /\ USB_BUS = TRUE
    /\ USB_SERIAL = TRUE
    /\ USB_DATA_RECEIVED = FALSE
    /\ nvicUnmasked = TRUE
    /\ primask \in BOOLEAN
    /\ csStack = <<>>
    /\ hstate = "Idle"
    /\ hRead = NoRead
    /\ rxSeen = FALSE
    /\ red_led = FALSE
    /\ msg = "none"
    /\ msgLen = 0
    /\ total_written = 0
    /\ bytes_written = 0
    /\ retpc = "none"
    /\ wire = <<>>
    /\ out = {}
    /\ ops = {}
    /\ failed = {}
    /\ cdLowFirst = "unread"
    /\ cdLast = "unread"
    /\ volIdx = 0
    /\ volOk = FALSE
    /\ dirSeen = 0
    /\ RegIdle

CsNext ==
    \/ Client_Enter \/ Client_Exit \/ Client_Write
    \/ W_Enter \/ W_Write \/ W_Exit \/ W_Done
    \/ USB_Fire \/ USB_PollRead \/ USB_Finish

CsSpec == CsInit /\ [][CsNext]_vars

(* ---------------- the handler entered before setup is over ---------- *)
\* the program entered with the USB line already enabled in the NVIC, as
\* code that ran before main may have left it: USB() can then be vectored to
\* while the slots are still empty
EarlyIrqInit ==
    /\ pc = "start"
    /\ USB_ALLOCATOR = FALSE
    /\ USB_BUS = FALSE
    /\ USB_SERIAL = FALSE
    /\ USB_DATA_RECEIVED = FALSE
    /\ nvicUnmasked = TRUE
    /\ primask = TRUE
    /\ csStack = <<>>
    /\ hstate = "Idle"
    /\ hRead = NoRead
    /\ rxSeen = FALSE
    /\ red_led = FALSE
    /\ msg = "none"
    /\ msgLen = 0
    /\ total_written = 0
    /\ bytes_written = 0
    /\ retpc = "none"
    /\ wire = <<>>
    /\ out = {}
    /\ ops = {}
    /\ failed = {}
    /\ cdLowFirst = "unread"
    /\ cdLast = "unread"
    /\ volIdx = 0
    /\ volOk = FALSE
    /\ dirSeen = 0
    /\ RegIdle

EarlyIrqSpec == EarlyIrqInit /\ [][Next]_vars

(* ---------------- allocation failure ---------------- *)
\* the handler leaving its loop and restarting the program
M_Oom_resets ==
    /\ pc = "oom"
    /\ pc' = "start"
    /\ UNCHANGED <<slotVars, USB_DATA_RECEIVED, nvicUnmasked, handlerVars,
                   rxSeen, red_led, macroVars, out, storVars, csVars, regVars>>

\* fn oom(_: Layout) -> ! { loop {} }
M_Oom ==
    /\ pc = "oom"
    /\ UNCHANGED vars

\* a caller formats a message that does not fit in the heap
Client_WriteHuge ==
    /\ hstate = "Idle"
    /\ pc = "client"
    /\ BeginWriteOf("Huge", "client", {HeapSize + 1})
    /\ UNCHANGED <<slotVars, USB_DATA_RECEIVED, nvicUnmasked, handlerVars,
                   rxSeen, red_led, out, storVars, csVars, regVars>>

OomNext == CsNext \/ Client_WriteHuge \/ M_Oom

OomSpec == CsInit /\ [][OomNext]_vars

(* ---------------- the TBFR127 reader ---------------- *)
\* a u32 is the set of the positions of its 1 bits
AllBits == 0..(WordBits - 1)
Bits(lo, hi) == lo..hi
SampleWords ==
    { {}, {0}, {WordBits - 1}, AllBits, Bits(0, WordBits - 2),
      Bits(1, WordBits - 1), Bits(0, 15), Bits(16, WordBits - 1),
      {0, WordBits - 1}, {i \in AllBits : i % 2 = 0} }

\* a & b
BitAnd(a, b) == a \cap b
\* x as u32
AsU32(x) == {i \in x : i < WordBits}
\* the literal 0xffff_ffff
NfrxMask_31bits == Bits(0, 30)
NfrxMask == Bits(0, 31)

\* NFRX_R::new((self.bits & 0xffff_ffff) as u32)
nfrx(bits) == AsU32(BitAnd(bits, NfrxMask))

\* Reader.extract(word) = (word >> o) & ((1 << w) - 1), over the integers
ExtractField(word, o, w) == {i - o : i \in {j \in word : j >= o}} \cap Bits(0, w - 1)

\* the hardware counts another frame: the register takes a new value
Reg_HwUpdate ==
    /\ \E w \in SampleWords : regBits' = w
    /\ UNCHANGED <<pc, slotVars, USB_DATA_RECEIVED, nvicUnmasked, handlerVars,
                   rxSeen, red_led, macroVars, out, storVars, csVars, rBits,
                   nfrxVal, fieldOp>>

\* a read of the register captures the word in a reader R
Reg_Read ==
    /\ rBits' = SomeWord(regBits)
    /\ nfrxVal' = NoWord
    /\ UNCHANGED <<pc, slotVars, USB_DATA_RECEIVED, nvicUnmasked, handlerVars,
                   rxSeen, red_led, macroVars, out, storVars, csVars, regBits,
                   fieldOp>>

\* R::nfrx on the captured word
Reg_Nfrx ==
    /\ rBits.some
    /\ nfrxVal' = SomeWord(nfrx(rBits.bits))
    /\ UNCHANGED <<pc, slotVars, USB_DATA_RECEIVED, nvicUnmasked, handlerVars,
                   rxSeen, red_led, macroVars, out, storVars, csVars, regBits,
                   rBits, fieldOp>>

RegInit ==
    /\ pc = "start"
    /\ USB_ALLOCATOR = FALSE
    /\ USB_BUS = FALSE
    /\ USB_SERIAL = FALSE
    /\ USB_DATA_RECEIVED = FALSE
    /\ nvicUnmasked = FALSE
    /\ primask = TRUE
    /\ csStack = <<>>
    /\ hstate = "Idle"
    /\ hRead = NoRead
    /\ rxSeen = FALSE
    /\ red_led = FALSE
    /\ msg = "none"
    /\ msgLen = 0
    /\ total_written = 0
    /\ bytes_written = 0
    /\ retpc = "none"
    /\ wire = <<>>
    /\ out = {}
    /\ ops = {}
    /\ failed = {}
    /\ cdLowFirst = "unread"
    /\ cdLast = "unread"
    /\ volIdx = 0
    /\ volOk = FALSE
    /\ dirSeen = 0
    /\ regBits \in SampleWords
    /\ rBits = NoWord
    /\ nfrxVal = NoWord
    /\ fieldOp = NoFieldOp

RegNext == Reg_HwUpdate \/ Reg_Read \/ Reg_Nfrx

RegSpec == RegInit /\ [][RegNext]_vars

(* ---------------- field insertion (Writer) ---------------- *)
\* (1 << w) - 1
MaskLe(w) == Bits(0, w - 1)
\* x << o, kept to 32 bits
Shl(x, o) == AsU32({i + o : i \in x})
\* a | b
BitOr(a, b) == a \cup b
\* ~a
BitNot(a) == AllBits \ a
\* mask = ((1 << w) - 1) << o
FieldMask(o, w) == Shl(MaskLe(w), o)

\* the value shifted in without being cut to the field width
InsertField_noTruncate(word, value, o, w) ==
    BitOr(BitAnd(word, BitNot(FieldMask(o, w))), Shl(value, o))

\* Writer.insert(word, value) = (word & ~mask) | ((value & mask_le(w)) << o)
InsertField(word, value, o, w) ==
    BitOr(BitAnd(word, BitNot(FieldMask(o, w))), Shl(BitAnd(value, MaskLe(w)), o))

\* the offset/width pairs of a field of a 32-bit register
FieldShapes == {s \in (0..(WordBits - 1)) \X (1..WordBits) : s[1] + s[2] <= WordBits}

\* the chosen field of the chosen word is written with the chosen value
Field_Insert ==
    /\ fieldOp.phase = "chosen"
    /\ fieldOp' = [fieldOp EXCEPT
                     !.phase = "inserted",
                     !.result = InsertField(fieldOp.word, fieldOp.value,
                                            fieldOp.o, fieldOp.w)]
    /\ UNCHANGED <<pc, slotVars, USB_DATA_RECEIVED, nvicUnmasked, handlerVars,
                   rxSeen, red_led, macroVars, out, storVars, csVars, regBits,
                   rBits, nfrxVal>>

\* the field just written is read back
Field_Extract ==
    /\ fieldOp.phase = "inserted"
    /\ fieldOp' = [fieldOp EXCEPT
                     !.phase = "extracted",
                     !.readback = ExtractField(fieldOp.result, fieldOp.o, fieldOp.w)]
    /\ UNCHANGED <<pc, slotVars, USB_DATA_RECEIVED, nvicUnmasked, handlerVars,
                   rxSeen, red_led, macroVars, out, storVars, csVars, regBits,
                   rBits, nfrxVal>>

\* any sample word, any sample value, any field shape
FieldInit ==
    /\ pc = "start"
    /\ USB_ALLOCATOR = FALSE
    /\ USB_BUS = FALSE
    /\ USB_SERIAL = FALSE
    /\ USB_DATA_RECEIVED = FALSE
    /\ nvicUnmasked = FALSE
    /\ primask = TRUE
    /\ csStack = <<>>
    /\ hstate = "Idle"
    /\ hRead = NoRead
    /\ rxSeen = FALSE
    /\ red_led = FALSE
    /\ msg = "none"
    /\ msgLen = 0
    /\ total_written = 0
    /\ bytes_written = 0
    /\ retpc = "none"
    /\ wire = <<>>
    /\ out = {}
    /\ ops = {}
    /\ failed = {}
    /\ cdLowFirst = "unread"
    /\ cdLast = "unread"
    /\ volIdx = 0
    /\ volOk = FALSE
    /\ dirSeen = 0
    /\ regBits = {}
    /\ rBits = NoWord
    /\ nfrxVal = NoWord
    /\ \E word \in SampleWords, value \in SampleWords, s \in FieldShapes :
          fieldOp = [phase |-> "chosen", word |-> word, value |-> value,
                     o |-> s[1], w |-> s[2], result |-> {}, readback |-> {}]

FieldNext == Field_Insert \/ Field_Extract

FieldSpec == FieldInit /\ [][FieldNext]_vars

(* ======================= properties ======================= *)
\* positions of the main flow before NVIC::unmask has been executed
SetupPcs == {"start", "set_alloc", "set_serial", "set_bus", "unmask"}
\* positions of the main flow up to and including the flag-polling loop
PrePollPcs == SetupPcs \cup {"sd_setup", "poll_check", "poll_delay"}
\* positions at which the next main-flow step reads or writes
\* USB_ALLOCATOR, USB_BUS or USB_SERIAL
MainAtSlotAccess == pc \in {"set_alloc", "set_serial", "set_bus", "w_write"}

\* C1: USB_DATA_RECEIVED starts false and, once true, is true in every later
\* state, whatever the interleaving of main-flow and handler steps.
C1_FlagMonotonic ==
    /\ USB_DATA_RECEIVED = FALSE
    /\ [][USB_DATA_RECEIVED => USB_DATA_RECEIVED']_vars

\* a later invocation read nothing while the flag was set, and the main flow
\* is in its final loop: the flag is still true
C1_Witness ==
    /\ USB_DATA_RECEIVED
    /\ pc = "idle"
    /\ hstate = "Idle"
    /\ hRead = [ok |-> TRUE, count |-> 0]

\* C2: a handler invocation sets the flag exactly when its read returned Ok
\* with a count above 0; otherwise it leaves the flag as it was; in both
\* cases it returns and changes nothing of the main flow; nothing else
\* changes the flag.
C2_HandlerStoreIff ==
    /\ [][(hstate = "Servicing" /\ hstate' = "Idle") =>
            /\ (hRead.ok /\ hRead.count > 0) => (USB_DATA_RECEIVED' = TRUE)
            /\ ~(hRead.ok /\ hRead.count > 0) =>
                   (USB_DATA_RECEIVED' = USB_DATA_RECEIVED)
            /\ UNCHANGED <<pc, macroVars, out, storVars, csVars>>]_vars
    /\ [][(USB_DATA_RECEIVED' # USB_DATA_RECEIVED) =>
            (hstate = "Servicing" /\ hstate' = "Idle"
                /\ hRead.ok /\ hRead.count > 0)]_vars
    /\ [](hstate = "Servicing" => ENABLED (USB_PollRead \/ USB_Finish))

\* an invocation whose read failed has returned, the flag is still false and
\* the main flow is still polling
C2_Witness ==
    /\ hstate = "Idle"
    /\ hRead = [ok |-> FALSE, count |-> 0]
    /\ ~USB_DATA_RECEIVED
    /\ pc = "poll_delay"

\* C3: the handler is never Servicing while the main flow is inside a write
\* attempt of usbserial_write or has not yet finished the setup writes.
C3_NoHandlerDuringSlotAccess ==
    hstate = "Servicing" =>
        /\ pc \notin {"w_write", "w_exit"}
        /\ pc \notin SetupPcs
        /\ ~InCriticalSection

\* the main flow is part-way through a write attempt, the USB line is
\* unmasked, and no handler is running
C3_Witness ==
    /\ pc = "w_exit"
    /\ bytes_written > 0
    /\ nvicUnmasked
    /\ hstate = "Idle"
    /\ rxSeen

\* C4 as stated: every main-flow access to the three slots, the setup writes
\* included, is made inside a critical section.
C4_AllSlotAccessInSection ==
    MainAtSlotAccess => (InCriticalSection /\ ~primask)

\* C4 as amended: every main-flow access to the three slots is made either
\* inside a critical section or before the USB interrupt is unmasked in the
\* NVIC; once it is unmasked the main flow touches the slots only inside a
\* critical section.
C4_SlotAccessGuarded ==
    /\ [](MainAtSlotAccess => ((InCriticalSection /\ ~primask) \/ ~nvicUnmasked))
    /\ [][(slotVars' # slotVars) =>
            ((InCriticalSection /\ ~primask) \/ ~nvicUnmasked)]_vars

\* a setup write is about to happen with no critical section in force, the
\* USB line being still masked
C4_Witness ==
    /\ pc = "set_bus"
    /\ USB_SERIAL
    /\ ~InCriticalSection
    /\ primask
    /\ ~nvicUnmasked

\* C5: leaving a critical section restores the captured interrupt-enable
\* state: the outermost entry captures the state then current, the last exit
\* restores it, interrupts stay masked while any section is active (so no
\* inner exit, a write attempt of usbserial_write included, re-enables
\* them), and entries and exits are matched last-in first-out.
C5_RestoreCaptured ==
    [][/\ (csStack = <<>> /\ csStack' # <<>>) => (csStack'[1] = primask)
       /\ (csStack # <<>> /\ csStack' = <<>>) => (primask' = csStack[1])
       /\ (csStack' # <<>>) => (primask' = FALSE)
       /\ \/ csStack' = csStack
          \/ /\ Len(csStack') = Len(csStack) + 1
             /\ SubSeq(csStack', 1, Len(csStack)) = csStack
          \/ /\ Len(csStack') = Len(csStack) - 1
             /\ SubSeq(csStack, 1, Len(csStack')) = csStack'
       /\ (pc = "w_test" /\ pc' = "w_write") => (Len(csStack') = Len(csStack) + 1)
       /\ (pc = "w_exit" /\ pc' = "w_test") => (Len(csStack') = Len(csStack) - 1)
      ]_vars

\* a write attempt has been completed inside an outer section that was
\* entered with interrupts enabled, and interrupts are still masked
C5_Witness ==
    /\ Len(csStack) >= 1
    /\ csStack[1] = TRUE
    /\ pc = "w_test"
    /\ total_written > 0
    /\ ~primask

\* C6: once the flag is true, the next load of the polling loop leaves the
\* loop, and a delay in progress is followed by that load: at most one
\* further delay separates the store from the exit.
C6_ObservedAtNextRead ==
    [][/\ (USB_DATA_RECEIVED /\ pc = "poll_check" /\ pc' # pc) => (pc' = "cd_check")
       /\ (USB_DATA_RECEIVED /\ pc = "poll_delay" /\ pc' # pc) => (pc' = "poll_check")
      ]_vars

\* the handler has set the flag while the main flow was in the delay of the
\* polling loop
C6_Witness ==
    /\ pc = "poll_delay"
    /\ USB_DATA_RECEIVED
    /\ hstate = "Idle"

\* C7: past the polling loop the flag is true and some handler invocation has
\* read at least one byte; in particular whenever a card-detect read, a
\* serial write or a storage-driver call has happened.
C7_NothingBeforeFlag ==
    (\/ pc \notin PrePollPcs
     \/ cdLowFirst # "unread"
     \/ msg # "none"
     \/ out # {}
     \/ ops # {})
        => (USB_DATA_RECEIVED /\ rxSeen)

\* messages have been written and the storage driver has been called
C7_Witness ==
    /\ out # {}
    /\ ops # {}
    /\ USB_DATA_RECEIVED
    /\ rxSeen

ReportOf(op) ==
    CASE op = "init" -> "InitErr"
      [] op = "card_size" -> "SizeErr"
      [] op = "get_volume" -> "VolumeErr"
      [] op = "open_root_dir" -> "OpenRootErr"
      [] op = "iterate_dir" -> "IterateErr"

\* C9: no failure of a storage-driver call halts the main flow, and each is
\* reported by a message before the idle loop is reached.
C9_FailuresReportedNoHalt ==
    (failed # {}) =>
        /\ pc # "panic"
        /\ (pc = "idle") => (\A op \in failed : ReportOf(op) \in out)

\* C10: nfrx returns the captured word unchanged, which is what
\* (word >> 0) & ((1 << 32) - 1) is over the integers; bit 31 included.
C10_NfrxFullWidth ==
    nfrxVal.some =>
        /\ nfrxVal.bits = rBits.bits
        /\ nfrxVal.bits = ExtractField(rBits.bits, 0, WordBits)

\* nfrx has returned a word with all 32 bits set
C10_Witness ==
    /\ nfrxVal.some
    /\ rBits.some
    /\ nfrxVal.bits = AllBits

\* C11: an insertion leaves every bit outside [o, o+w) as it was in the word,
\* and reading the field back gives the value cut to its w low bits.
C11_InsertOwnBitsOnly ==
    /\ (fieldOp.phase \in {"inserted", "extracted"}) =>
          \A i \in AllBits \ (fieldOp.o..(fieldOp.o + fieldOp.w - 1)) :
              (i \in fieldOp.result) <=> (i \in fieldOp.word)
    /\ (fieldOp.phase = "extracted") =>
          fieldOp.readback = {i \in fieldOp.value : i < fieldOp.w}

\* a value wider than its field has been written over a word with bits set
\* on both sides of the field, and read back
C11_Witness ==
    /\ fieldOp.phase = "extracted"
    /\ fieldOp.o = 4
    /\ fieldOp.w = 4
    /\ fieldOp.word = AllBits
    /\ fieldOp.value = Bits(1, WordBits - 1)
    /\ fieldOp.readback = {1, 2, 3}

\* C12: once the allocation-error handler is entered the main flow stays in
\* it for ever: no serial write, no storage call, no LED toggle, no change of
\* the slots or of the interrupt masks, no return and no restart.
C12_OomIsFinal ==
    [][(pc = "oom") =>
          /\ pc' = "oom"
          /\ UNCHANGED <<macroVars, out, storVars, red_led, slotVars, csVars,
                         nvicUnmasked>>]_vars

\* the main flow is in the allocation-error handler after having written a
\* message, and the USB handler is still being serviced
C12_Witness ==
    /\ pc = "oom"
    /\ "Client" \in out
    /\ hstate = "Servicing"
    /\ hRead # NoRead

\* C13: inside the macro the bytes accepted so far are the first bytes of
\* the message, each once and in order, as many as total_written counts (plus
\* those of the attempt in progress); total_written never decreases and never
\* exceeds the length; an attempt that accepted nothing changes nothing and is
\* followed by the loop test; the macro ends only with total_written equal to
\* the length and the whole message accepted.
C13_WholeMessageOnce ==
    /\ [](msg # "none" =>
            /\ total_written <= msgLen
            /\ wire = [i \in 1..Len(wire) |-> i]
            /\ Len(wire) = total_written + (IF pc = "w_exit" THEN bytes_written ELSE 0)
            /\ Len(wire) <= msgLen)
    /\ [](pc = "w_test" /\ total_written < msgLen => ~ENABLED W_Done)
    /\ [][/\ (msg # "none" /\ msg' # "none") => (total_written' >= total_written)
          /\ (pc = "w_exit" /\ bytes_written = 0 /\ pc' # pc) =>
                (total_written' = total_written /\ wire' = wire /\ pc' = "w_test")
          /\ (msg # "none" /\ msg' = "none") =>
                /\ total_written = msgLen
                /\ wire = [i \in 1..msgLen |-> i]
                /\ out' = out \cup {msg}
         ]_vars

\* an attempt made after one byte of a two-byte message had been accepted
\* has accepted nothing
C13_Witness ==
    /\ pc = "w_exit"
    /\ msgLen = 2
    /\ total_written = 1
    /\ bytes_written = 0
    /\ wire = <<1>>

\* C14: no slot is ever emptied; a slot changes only during setup, one at a
\* time, with the USB line still masked; each of the three writes finds its
\* slot empty and is never reached again; so from the unmask on all three
\* are populated, and a running handler finds USB_BUS and USB_SERIAL.
C14_SlotsPopulatedOnce ==
    /\ [][/\ USB_ALLOCATOR => USB_ALLOCATOR'
          /\ USB_SERIAL => USB_SERIAL'
          /\ USB_BUS => USB_BUS'
          /\ (slotVars' # slotVars) =>
                /\ pc \in SetupPcs
                /\ ~nvicUnmasked /\ ~nvicUnmasked'
                /\ Cardinality({i \in 1..3 : slotVars'[i] # slotVars[i]}) = 1
          /\ (pc = "set_alloc" /\ pc' # pc) => (~USB_ALLOCATOR /\ USB_ALLOCATOR')
          /\ (pc = "set_serial" /\ pc' # pc) => (~USB_SERIAL /\ USB_SERIAL')
          /\ (pc = "set_bus" /\ pc' # pc) => (~USB_BUS /\ USB_BUS')
          /\ (pc' # pc /\ pc' = "set_alloc") => (pc = "start")
          /\ (pc' # pc /\ pc' = "set_serial") => (pc = "set_alloc")
          /\ (pc' # pc /\ pc' = "set_bus") => (pc = "set_serial")
          /\ (pc' = "start") => (pc = "start")
         ]_vars
    /\ [](nvicUnmasked => (USB_ALLOCATOR /\ USB_SERIAL /\ USB_BUS))
    /\ [](hstate = "Servicing" => (USB_BUS /\ USB_SERIAL))
    /\ [](hRead # Skipped)

\* right after the unmask a handler invocation has polled and read
C14_Witness ==
    /\ pc = "sd_setup"
    /\ hstate = "Servicing"
    /\ hRead \in ReadResults
    /\ USB_BUS
    /\ USB_SERIAL

\* C15: interrupts are masked exactly while a single write attempt is in
\* progress, so between two attempts the USB handler can be entered; the
\* count advances only by an attempt that accepted a byte and the macro cannot
\* end before one did; and, the host draining the endpoint, every call of the
\* macro ends.
C15_UnmaskedBetweenAttempts ==
    /\ [](~primask <=> pc \in {"w_write", "w_exit"})
    /\ [](InCriticalSection <=> pc \in {"w_write", "w_exit"})
    /\ []((pc = "w_test" /\ hstate = "Idle") => ENABLED USB_Fire)
    /\ []((msg # "none" /\ total_written = 0) => ~ENABLED W_Done)
    /\ [][(total_written' > total_written) =>
             (pc = "w_exit" /\ bytes_written > 0)]_vars
    /\ (msg # "none") ~> (msg = "none")

\* the handler is being serviced between the first and the second attempt of
\* a two-byte message
C15_Witness ==
    /\ pc = "w_test"
    /\ msgLen = 2
    /\ total_written = 1
    /\ hstate = "Servicing"

\* C16: an invocation that finds USB_BUS or USB_SERIAL empty neither polls
\* nor reads, returns, and leaves the flag, the three slots and the whole
\* main flow as they were.
C16_EmptySlotsNoEffect ==
    /\ [][(hstate = "Servicing" /\ hRead = NoRead /\ ~(USB_BUS /\ USB_SERIAL)
             /\ hRead' # hRead) =>
                /\ hRead' = Skipped
                /\ UNCHANGED <<USB_DATA_RECEIVED, slotVars, rxSeen, pc>>]_vars
    /\ [][(hstate = "Servicing" /\ hRead = Skipped /\ hstate' = "Idle") =>
                UNCHANGED <<USB_DATA_RECEIVED, slotVars, rxSeen, pc, macroVars,
                            out, storVars, csVars, red_led>>]_vars
    /\ []((hstate = "Servicing" /\ ~(USB_BUS /\ USB_SERIAL)) =>
                (hRead \in {NoRead, Skipped} /\ ENABLED (USB_PollRead \/ USB_Finish)))

\* an invocation found USB_SERIAL populated but USB_BUS empty and has
\* returned; the flag is still false and the main flow is where it was
C16_Witness ==
    /\ hstate = "Idle"
    /\ hRead = Skipped
    /\ USB_SERIAL
    /\ ~USB_BUS
    /\ ~USB_DATA_RECEIVED
    /\ pc = "set_bus"

\* C17: "Card inserted!" is being or has been written, or the storage driver
\* has been called, only when the latest card-detect read was not low;
\* "No card detected" is being or has been written exactly when the first
\* card-detect read was low, and then it is complete before "Card inserted!"
\* is started.
C17_CardDetectOrdering ==
    /\ (msg = "CardInserted" \/ "CardInserted" \in out \/ ops # {})
          => (cdLast = "high")
    /\ (msg = "NoCard" \/ "NoCard" \in out) <=> (cdLowFirst = "low")
    /\ ((msg = "CardInserted" \/ "CardInserted" \in out) /\ cdLowFirst = "low")
          => ("NoCard" \in out)
    /\ ("init" \in ops) => ("CardInserted" \in out)

\* the first read was low, a later one was not, both messages are out and
\* the storage driver has been initialised
C17_Witness ==
    /\ cdLowFirst = "low"
    /\ cdLast = "high"
    /\ {"NoCard", "CardInserted"} \subseteq out
    /\ "init" \in ops

====
